---- MODULE Spec2Model ----
(***************************************************************************)
(* Model of tokenizers/src/charabia.rs: the adapter that turns the         *)
(* segments of the charabia segmentation engine into tantivy tokens.       *)
(*                                                                         *)
(* A text buffer is modelled by the units the engine segments it into;     *)
(* each caller thread owns one buffer, one tokenizer configuration and at  *)
(* most one live token stream.  The engine, its iterator, once_cell's Lazy *)
(* and tantivy's Token are libraries: they are given their documented      *)
(* behaviour.  The stop-word stage is assembled in the crate's manager     *)
(* module on top of tantivy's filter; it follows the written               *)
(* specification (section 4.2).                                            *)
(***************************************************************************)
EXTENDS Naturals, Integers, Sequences, FiniteSets

VARIABLES
    threads,        \* the caller threads of this run
    text,           \* text[t]: the buffer thread t tokenizes (its units)
    cfg,            \* cfg[t]: SearchTokenizerFilters of t's tokenizer
    pc,             \* pc[t]: "new" | "init" | "open"
    stream,         \* stream[t]: the CharabiaTokenStream t owns
    ret,            \* ret[t]: what t's last advance() returned
    out,            \* out[t]: the tokens t's caller collected (test_helper)
    emitted,        \* emitted[t]: the tokens the adapter itself produced
    srcIdx,         \* srcIdx[t]: the segment each emitted token came from
    afterFalse,     \* afterFalse[t]: advance() calls made after a false
    runs,           \* runs[t]: token_stream() calls t has made
    prev,           \* prev[t]: what t's previous stream had produced
    lazy,           \* CHARABIA_TOKENIZER: the Lazy cell
    constructions   \* how many times the Lazy initializer has run

vars == <<threads, text, cfg, pc, stream, ret, out, emitted, srcIdx,
          afterFalse, runs, prev, lazy, constructions>>

(***************************** bounds **************************************)
\* segments per buffer
MaxSegs == 3
\* token_stream() calls per thread
MaxRuns == 2
\* advance() calls after the stream is exhausted
MaxExtraCalls == 2
\* threads of the concurrent specification
NumThreads == 2
\* segments per buffer in the concurrent specification
ConcMaxSegs == 2

(***************************** text ****************************************)
\* U+0301 COMBINING ACUTE ACCENT and U+00E9, as code-point names
ACUTE == "U+0301"
E_ACUTE == "U+00E9"

\* byte widths of a unit of the buffer (ASCII and CJK units of the tests)
Widths == {1, 3}

\* lemmas the engine reports for word units; the last one is decomposed
THE == <<"t", "h", "e">>
FOX == <<"f", "o", "x">>
E_DECOMPOSED == <<"e", ACUTE>>
WordLemmas == {THE, FOX, E_DECOMPOSED}
SepLemmas == {<<" ">>}

\* a unit of a buffer: what the engine will classify, normalise and measure
Units ==
    [is_word : {TRUE}, lemma : WordLemmas, width : Widths]
    \cup [is_word : {FALSE}, lemma : SepLemmas, width : Widths]

\* the units of the buffers of the concurrent specification: words only
ConcUnits == [is_word : {TRUE}, lemma : {FOX}, width : {3}]

SeqsUpTo(S, n) == UNION {[1..k -> S] : k \in 0..n}

Inputs == SeqsUpTo(Units, MaxSegs)
ConcInputs == SeqsUpTo(ConcUnits, ConcMaxSegs)

RECURSIVE ByteLen(_)
\* text.len(): the length of the buffer in bytes
ByteLen(txt) ==
    IF txt = <<>> THEN 0 ELSE txt[Len(txt)].width + ByteLen(SubSeq(txt, 1, Len(txt) - 1))

(***************************** libraries ***********************************)
\* Token::default() of tantivy: position is usize::MAX, for which -1 stands
\* (a value no position counter of the model takes)
DefaultPosition == -1

DefaultToken ==
    [text |-> <<>>, offset_from |-> 0, offset_to |-> 0,
     position |-> DefaultPosition, position_length |-> 1]

\* canonical composition of a starter and the combining mark that follows it
Composable(a, b) == a = "e" /\ b = ACUTE

RECURSIVE nfc(_)
\* str.nfc().collect::<String>() on the code points of the model
nfc(s) ==
    IF Len(s) < 2 THEN s
    ELSE IF Composable(s[1], s[2])
         THEN nfc(<<E_ACUTE>> \o SubSeq(s, 3, Len(s)))
         ELSE <<s[1]>> \o nfc(Tail(s))

\* Tokenizer::tokenize(text): the segments of the buffer, contiguous and
\* non-empty, with byte offsets into the buffer
tokenize(txt) ==
    [i \in 1..Len(txt) |->
        [is_word |-> txt[i].is_word,
         lemma |-> txt[i].lemma,
         byte_start |-> ByteLen(SubSeq(txt, 1, i - 1)),
         byte_end |-> ByteLen(SubSeq(txt, 1, i))]]

\* Token::is_word()
is_word(seg) == seg.is_word

\* self.tokens.next(): the segment pulled and the iterator after it; once the
\* segments are used up the iterator keeps answering None
next_eager_reset(s) ==
    IF s.cursor < Len(s.segs)
    THEN [some |-> TRUE, idx |-> s.cursor + 1, s |-> [s EXCEPT !.cursor = @ + 1]]
    ELSE [some |-> FALSE, idx |-> 0, s |-> [s EXCEPT !.cursor = 0]]

next(s) ==
    IF s.cursor < Len(s.segs)
    THEN [some |-> TRUE, idx |-> s.cursor + 1, s |-> [s EXCEPT !.cursor = @ + 1]]
    ELSE [some |-> FALSE, idx |-> 0, s |-> s]

(***************************** the adapter *********************************)
\* CharabiaTokenStream::new, given the engine the Lazy cell handed out
new(txt, engine) ==
    [segs |-> tokenize(txt), cursor |-> 0, token |-> DefaultToken,
     position |-> 0, engine |-> engine]

\* advance(), lines 64-69, with the counter left alone
emit_no_increment(s, seg) ==
    [s EXCEPT !.token = [@ EXCEPT !.text = nfc(seg.lemma),
                                  !.offset_from = seg.byte_start,
                                  !.offset_to = seg.byte_end,
                                  !.position = s.position]]

\* advance(), lines 64-69, with offset_to taken from byte_start
emit_empty_range(s, seg) ==
    [s EXCEPT !.token = [@ EXCEPT !.text = nfc(seg.lemma),
                                  !.offset_from = seg.byte_start,
                                  !.offset_to = seg.byte_start,
                                  !.position = s.position],
              !.position = @ + 1]

\* advance(), lines 64-69, with the lemma stored as the engine gave it
emit_raw_lemma(s, seg) ==
    [s EXCEPT !.token = [@ EXCEPT !.text = seg.lemma,
                                  !.offset_from = seg.byte_start,
                                  !.offset_to = seg.byte_end,
                                  !.position = s.position],
              !.position = @ + 1]

\* advance(), lines 64-69, with offset_to measured on the normalised text
emit_offsets_from_text(s, seg) ==
    [s EXCEPT !.token = [@ EXCEPT !.text = nfc(seg.lemma),
                                  !.offset_from = seg.byte_start,
                                  !.offset_to = seg.byte_start + Len(nfc(seg.lemma)),
                                  !.position = s.position],
              !.position = @ + 1]

\* advance(), lines 64-69, with the position counted on from the one found
\* in the token (usize::MAX wrapping to 0)
emit_position_from_token(s, seg) ==
    [s EXCEPT !.token = [@ EXCEPT !.text = nfc(seg.lemma),
                                  !.offset_from = seg.byte_start,
                                  !.offset_to = seg.byte_end,
                                  !.position = s.token.position + 1],
              !.position = @ + 1]

\* advance(), lines 64-69: the body of the is_word branch
emit(s, seg) ==
    [s EXCEPT !.token = [@ EXCEPT !.text = nfc(seg.lemma),
                                  !.offset_from = seg.byte_start,
                                  !.offset_to = seg.byte_end,
                                  !.position = s.position],
              !.position = @ + 1]

\* the branch of line 63 taken for every segment
passes_every_segment(seg) == TRUE

\* line 63: if token.is_word()
passes(seg) == is_word(seg)

RECURSIVE advance_write_first(_)
\* advance() filling the token from each segment before testing is_word()
advance_write_first(s) ==
    LET n == next(s) IN
    IF ~n.some THEN [s |-> n.s, ret |-> FALSE, log |-> <<>>]
    ELSE LET seg == s.segs[n.idx]
             w == [n.s EXCEPT !.token = [@ EXCEPT !.text = nfc(seg.lemma),
                                                  !.offset_from = seg.byte_start,
                                                  !.offset_to = seg.byte_end]]
         IN  IF passes(seg)
             THEN LET s2 == [w EXCEPT !.token.position = s.position,
                                      !.position = @ + 1] IN
                  [s |-> s2, ret |-> TRUE,
                   log |-> <<[token |-> s2.token, idx |-> n.idx]>>]
             ELSE advance_write_first(w)

RECURSIVE advance(_)
\* CharabiaTokenStream::advance: the stream after the call, what it returned,
\* and the tokens it produced with the segment each was built from
advance(s) ==
    LET n == next(s) IN
    IF ~n.some THEN [s |-> n.s, ret |-> FALSE, log |-> <<>>]
    ELSE LET seg == s.segs[n.idx] IN
         IF passes(seg)
         THEN LET s2 == emit(n.s, seg) IN
              [s |-> s2, ret |-> TRUE,
               log |-> <<[token |-> s2.token, idx |-> n.idx]>>]
         ELSE advance(n.s)

\* TokenStream::token
token(s) == s.token

\* what a later pipeline stage may write through token_mut(): a new
\* position_length alone, or every field of the token
Writes == {"position_length", "all"}

Scribbled == [text |-> <<"x">>, offset_from |-> 90, offset_to |-> 91,
              position |-> 9, position_length |-> 2]

\* TokenStream::token_mut, and the write w made through the reference
token_mut(s, w) ==
    IF w = "all" THEN [s EXCEPT !.token = Scribbled]
    ELSE [s EXCEPT !.token.position_length = 2]

(***************************** the stop-word stage **************************)
\* SearchTokenizerFilters: which of the two options are set
NoFilters == [stopwords_language |-> FALSE, stopwords |-> FALSE]
Configs == [stopwords_language : BOOLEAN, stopwords : BOOLEAN]

\* the built-in set of the language (English) and the caller's list
LanguageStopwords == {THE}
CustomStopwords == {FOX}

\* the active set with the caller's list dropped when a language is set
ActiveStopwords_language_wins(c) ==
    IF c.stopwords_language THEN LanguageStopwords
    ELSE IF c.stopwords THEN CustomStopwords ELSE {}

\* the set the filter tests against: the union of the active sets
ActiveStopwords(c) ==
    (IF c.stopwords_language THEN LanguageStopwords ELSE {})
    \cup (IF c.stopwords THEN CustomStopwords ELSE {})

\* whether a stop-word stage wraps the adapter at all
Filtered(c) == c.stopwords_language \/ c.stopwords

\* the filter's test on one token of the wrapped stream
rejects(c, tok) == tok.text \in ActiveStopwords(c)

\* the filter's advance() answering false at the first token it rejects
filter_advance_gives_up(c, s) ==
    LET r == advance(s) IN
    IF r.ret /\ rejects(c, token(r.s)) THEN [r EXCEPT !.ret = FALSE] ELSE r

RECURSIVE filter_advance(_, _)
\* the filter's advance(): draw from the wrapped stream until a token passes
\* or the wrapped stream is exhausted
filter_advance(c, s) ==
    LET r == advance(s) IN
    IF ~r.ret THEN r
    ELSE IF rejects(c, token(r.s))
         THEN LET q == filter_advance(c, r.s) IN
              [s |-> q.s, ret |-> q.ret, log |-> r.log \o q.log]
         ELSE r

\* the filtered advance() closing the gaps the dropped tokens leave
stream_advance_compacting(c, s) ==
    IF ~Filtered(c) THEN advance(s)
    ELSE LET r == filter_advance(c, s) IN
         IF r.ret
         THEN [r EXCEPT !.s.token.position = @ - (Len(r.log) - 1)]
         ELSE r

\* advance() of the stream SearchTokenizer::to_tantivy_tokenizer hands out
stream_advance(c, s) == IF Filtered(c) THEN filter_advance(c, s) ELSE advance(s)

(***************************** state ***************************************)
Ret(b) == IF b THEN "true" ELSE "false"

\* f with key k set to v, and f without key k
Put(f, k, v) == [x \in DOMAIN f \cup {k} |-> IF x = k THEN v ELSE f[x]]
Drop(f, k) == [x \in DOMAIN f \ {k} |-> f[x]]

NoPrev == [out |-> <<>>, done |-> FALSE]

InitThreads(T, I, C) ==
    /\ threads = T
    /\ text \in [T -> I]
    /\ cfg \in [T -> C]
    /\ pc = [t \in T |-> "new"]
    /\ stream = <<>>
    /\ ret = [t \in T |-> "none"]
    /\ out = [t \in T |-> <<>>]
    /\ emitted = [t \in T |-> <<>>]
    /\ srcIdx = [t \in T |-> <<>>]
    /\ afterFalse = [t \in T |-> 0]
    /\ runs = [t \in T |-> 0]
    /\ prev = [t \in T |-> NoPrev]
    /\ lazy = [state |-> "uninit", instance |-> 0]
    /\ constructions = 0

\* one caller, CharabiaTokenizer used directly
Init == InitThreads({1}, Inputs, {NoFilters})
\* one caller, any filter configuration
InitFilter == InitThreads({1}, Inputs, Configs)
\* several callers, each over a buffer of its own
InitConc == InitThreads(1..NumThreads, ConcInputs, {NoFilters})

(***************************** actions *************************************)
\* Lazy::force by a thread that may start the initializer while another runs it
LazyForce_unguarded(t) ==
    /\ pc[t] = "new"
    /\ lazy.state # "complete"
    /\ lazy' = [lazy EXCEPT !.state = "running"]
    /\ pc' = [pc EXCEPT ![t] = "init"]
    /\ UNCHANGED <<threads, text, cfg, stream, ret, out, emitted, srcIdx,
                   afterFalse, runs, prev, constructions>>

\* line 50, the dereference of CHARABIA_TOKENIZER finding the cell empty: the
\* thread takes the initialization; a thread that finds it running is blocked
LazyForce(t) ==
    /\ pc[t] = "new"
    /\ lazy.state = "uninit"
    /\ lazy' = [lazy EXCEPT !.state = "running"]
    /\ pc' = [pc EXCEPT ![t] = "init"]
    /\ UNCHANGED <<threads, text, cfg, stream, ret, out, emitted, srcIdx,
                   afterFalse, runs, prev, constructions>>

\* lines 27-29, the initializer: builds the engine and completes the cell
LazyInit(t) ==
    /\ pc[t] = "init"
    /\ constructions' = constructions + 1
    /\ lazy' = [state |-> "complete", instance |-> constructions + 1]
    /\ pc' = [pc EXCEPT ![t] = "new"]
    /\ UNCHANGED <<threads, text, cfg, stream, ret, out, emitted, srcIdx,
                   afterFalse, runs, prev>>

\* token_stream with the position counter taken over from the stream before
TokenStream_carry(t) ==
    /\ pc[t] = "new"
    /\ lazy.state = "complete"
    /\ stream' = Put(stream, t, [new(text[t], lazy.instance)
                                   EXCEPT !.position = Len(prev[t].out)])
    /\ pc' = [pc EXCEPT ![t] = "open"]
    /\ runs' = [runs EXCEPT ![t] = @ + 1]
    /\ UNCHANGED <<threads, text, cfg, ret, out, emitted, srcIdx, afterFalse,
                   prev, lazy, constructions>>

\* CharabiaTokenizer::token_stream -> CharabiaTokenStream::new, once the cell
\* holds the engine
TokenStream(t) ==
    /\ pc[t] = "new"
    /\ lazy.state = "complete"
    /\ stream' = Put(stream, t, new(text[t], lazy.instance))
    /\ pc' = [pc EXCEPT ![t] = "open"]
    /\ runs' = [runs EXCEPT ![t] = @ + 1]
    /\ UNCHANGED <<threads, text, cfg, ret, out, emitted, srcIdx, afterFalse,
                   prev, lazy, constructions>>

\* advance() whose current-token buffer and counter are one cell for all streams
Advance_shared_cell(t) ==
    /\ pc[t] = "open"
    /\ ret[t] = "false" => afterFalse[t] < MaxExtraCalls
    /\ LET r == stream_advance(cfg[t], stream[t]) IN
        /\ stream' = [u \in DOMAIN stream |->
                        IF u = t THEN r.s
                        ELSE [stream[u] EXCEPT !.token = r.s.token,
                                               !.position = r.s.position]]
        /\ ret' = [ret EXCEPT ![t] = Ret(r.ret)]
        /\ out' = [out EXCEPT ![t] = IF r.ret THEN Append(@, token(r.s)) ELSE @]
        /\ emitted' = [emitted EXCEPT
                         ![t] = @ \o [i \in 1..Len(r.log) |-> r.log[i].token]]
        /\ srcIdx' = [srcIdx EXCEPT
                        ![t] = @ \o [i \in 1..Len(r.log) |-> r.log[i].idx]]
    /\ afterFalse' = [afterFalse EXCEPT ![t] = IF ret[t] = "false" THEN @ + 1 ELSE @]
    /\ UNCHANGED <<threads, text, cfg, pc, runs, prev, lazy, constructions>>

\* one advance() call by the caller, which keeps the token of a true result
\* (while token_stream.advance() { tokens.push(token_stream.token().clone()) })
Advance(t) ==
    /\ pc[t] = "open"
    /\ ret[t] = "false" => afterFalse[t] < MaxExtraCalls
    /\ LET r == stream_advance(cfg[t], stream[t]) IN
        /\ stream' = [stream EXCEPT ![t] = r.s]
        /\ ret' = [ret EXCEPT ![t] = Ret(r.ret)]
        /\ out' = [out EXCEPT ![t] = IF r.ret THEN Append(@, token(r.s)) ELSE @]
        /\ emitted' = [emitted EXCEPT
                         ![t] = @ \o [i \in 1..Len(r.log) |-> r.log[i].token]]
        /\ srcIdx' = [srcIdx EXCEPT
                        ![t] = @ \o [i \in 1..Len(r.log) |-> r.log[i].idx]]
    /\ afterFalse' = [afterFalse EXCEPT ![t] = IF ret[t] = "false" THEN @ + 1 ELSE @]
    /\ UNCHANGED <<threads, text, cfg, pc, runs, prev, lazy, constructions>>

\* the caller drops its stream, driven to the end or not, to tokenize the
\* same buffer again with the same tokenizer
Retokenize(t) ==
    /\ pc[t] = "open"
    /\ runs[t] < MaxRuns
    /\ prev' = [prev EXCEPT ![t] = [out |-> out[t], done |-> ret[t] = "false"]]
    /\ stream' = Drop(stream, t)
    /\ pc' = [pc EXCEPT ![t] = "new"]
    /\ ret' = [ret EXCEPT ![t] = "none"]
    /\ out' = [out EXCEPT ![t] = <<>>]
    /\ emitted' = [emitted EXCEPT ![t] = <<>>]
    /\ srcIdx' = [srcIdx EXCEPT ![t] = <<>>]
    /\ afterFalse' = [afterFalse EXCEPT ![t] = 0]
    /\ UNCHANGED <<threads, text, cfg, runs, lazy, constructions>>

\* a later stage rewrites, in place through token_mut(), the token a true
\* advance() made current
TokenMut(t) ==
    /\ pc[t] = "open"
    /\ ret[t] = "true"
    /\ \E w \in Writes : stream' = [stream EXCEPT ![t] = token_mut(@, w)]
    /\ UNCHANGED <<threads, text, cfg, pc, ret, out, emitted, srcIdx, afterFalse,
                   runs, prev, lazy, constructions>>

Next ==
    \/ \E t \in threads : LazyForce(t)
    \/ \E t \in threads : LazyInit(t)
    \/ \E t \in threads : TokenStream(t)
    \/ \E t \in threads : Advance(t)
    \/ \E t \in threads : Retokenize(t)

\* the drive of several callers, each to the end of its one stream
NextConc ==
    \/ \E t \in threads : LazyForce(t)
    \/ \E t \in threads : LazyInit(t)
    \/ \E t \in threads : TokenStream(t)
    \/ \E t \in threads : Advance(t)

\* one stream driven by a caller whose later stages rewrite the token
NextMut ==
    \/ \E t \in threads : LazyForce(t)
    \/ \E t \in threads : LazyInit(t)
    \/ \E t \in threads : TokenStream(t)
    \/ \E t \in threads : Advance(t)
    \/ \E t \in threads : TokenMut(t)

\* a caller that creates its stream and loops on advance()
NextDrive ==
    \/ \E t \in threads : LazyForce(t)
    \/ \E t \in threads : LazyInit(t)
    \/ \E t \in threads : TokenStream(t)
    \/ \E t \in threads : Advance(t)

Spec == Init /\ [][Next]_vars
SpecMut == Init /\ [][NextMut]_vars
\* the caller's code is synchronous and runs on: a step that can be taken
\* is taken in the end
SpecDrive == Init /\ [][NextDrive]_vars /\ WF_vars(NextDrive)
SpecFilter == InitFilter /\ [][Next]_vars
SpecConc == InitConc /\ [][NextConc]_vars

(***************************** helpers of the claims ***********************)
Min(a, b) == IF a < b THEN a ELSE b
Range(f) == {f[x] : x \in DOMAIN f}

\* the indices of the word segments among the first n segments, in order
WordIdx(segs, n) == SelectSeq([i \in 1..n |-> i], LAMBDA i : segs[i].is_word)

HasWord(txt) == \E i \in 1..Len(txt) : txt[i].is_word
HasNonWord(txt) == \E i \in 1..Len(txt) : ~txt[i].is_word

RECURSIVE Drive(_)
\* the tokens a stream yields when it alone is driven until advance() is false
Drive(s) ==
    LET r == advance(s) IN
    IF r.ret THEN <<token(r.s)>> \o Drive(r.s) ELSE <<>>

IsPrefix(a, b) == Len(a) <= Len(b) /\ a = SubSeq(b, 1, Len(a))

(***************************** claims **************************************)
\* C1: the tokens an unfiltered stream has yielded carry the positions
\* 0, 1, ..., N-1 in the order of emission, N being the number of advance()
\* calls that returned true: no gap, no repeat.
C1_PositionsDense ==
    \A t \in threads :
        \A i \in 1..Len(out[t]) : out[t][i].position = i - 1

\* C1 witness: a run to the end that yielded two tokens or more from a buffer
\* that also holds a non-word segment
C1_Witness ==
    \E t \in threads :
        /\ ret[t] = "false"
        /\ Len(out[t]) >= 2
        /\ HasNonWord(text[t])

\* C2: every token comes from a word segment; the tokens yielded so far are,
\* one for one and in order, the word segments among the segments pulled,
\* the counter counts only them, and an exhausted stream has pulled them all.
C2_OnlyWords ==
    \A t \in DOMAIN stream :
        LET s == stream[t] IN
        /\ srcIdx[t] = WordIdx(s.segs, s.cursor)
        /\ Len(emitted[t]) = Len(srcIdx[t])
        /\ s.position = Len(srcIdx[t])
        /\ \A k \in 1..Len(emitted[t]) :
              /\ s.segs[srcIdx[t][k]].is_word
              /\ emitted[t][k].offset_from = s.segs[srcIdx[t][k]].byte_start
              /\ emitted[t][k].offset_to = s.segs[srcIdx[t][k]].byte_end
        /\ ret[t] = "true" => s.segs[s.cursor].is_word
        /\ ret[t] = "false" => s.cursor = Len(s.segs)

\* C2 witness: a finished run over a buffer that starts with a non-word
\* segment and holds two words
C2_Witness ==
    \E t \in DOMAIN stream :
        /\ ret[t] = "false"
        /\ Len(text[t]) = 3
        /\ ~text[t][1].is_word
        /\ Len(emitted[t]) = 2

\* C3: every token yielded has offset_from < offset_to, and both lie within
\* the buffer: 0 <= offset_from and offset_to <= the length of the input.
C3_OffsetsValid ==
    \A t \in threads :
        \A i \in 1..Len(emitted[t]) :
            /\ 0 <= emitted[t][i].offset_from
            /\ emitted[t][i].offset_from < emitted[t][i].offset_to
            /\ emitted[t][i].offset_to <= ByteLen(text[t])

\* C3 witness: a token that ends where the buffer ends and starts after its
\* first byte
C3_Witness ==
    \E t \in threads :
        \E i \in 1..Len(emitted[t]) :
            /\ emitted[t][i].offset_from > 0
            /\ emitted[t][i].offset_to = ByteLen(text[t])

\* C4: once advance() has returned false on a stream, every later advance()
\* on that stream returns false and yields no further token.
C4_ExhaustedStays ==
    [][\A t \in threads :
          (ret[t] = "false" /\ pc'[t] = "open")
              => (ret'[t] = "false" /\ out'[t] = out[t] /\ emitted'[t] = emitted[t])]_vars

\* C4 witness: a stream that had yielded tokens, called again as often as the
\* model allows after its first false
C4_Witness ==
    \E t \in threads :
        /\ ret[t] = "false"
        /\ afterFalse[t] = MaxExtraCalls
        /\ Len(out[t]) >= 1

\* C5: behind a stop-word filter the caller sees exactly the adapter's tokens
\* whose text is not in the active set, in the adapter's order and with the
\* offsets and positions the adapter gave them (positions stay sparse).
C5_FilterSubsequence ==
    \A t \in threads :
        /\ out[t] = SelectSeq(emitted[t],
                              LAMBDA tok : tok.text \notin ActiveStopwords(cfg[t]))
        /\ \A i \in 1..Len(emitted[t]) : emitted[t][i].position = i - 1

\* C5 witness: a filtered run whose surviving token has a position above its
\* rank among the survivors
C5_Witness ==
    \E t \in threads :
        /\ Filtered(cfg[t])
        /\ ret[t] = "false"
        /\ \E i \in 1..Len(out[t]) : out[t][i].position > i - 1

\* whether the k-th token of the adapter was withheld from the caller
Withheld(t, k) == emitted[t][k] \notin Range(out[t])

\* C6: with both options set a token is rejected iff its text is in the
\* language set or in the caller's list; with one option set, iff it is in
\* that set; with none, never.
C6_EitherSet ==
    \A t \in threads :
        \A k \in 1..Len(emitted[t]) :
            LET txt == emitted[t][k].text
                inLang == txt \in LanguageStopwords
                inList == txt \in CustomStopwords
            IN  Withheld(t, k) <=>
                    CASE cfg[t].stopwords_language /\ cfg[t].stopwords -> inLang \/ inList
                      [] cfg[t].stopwords_language /\ ~cfg[t].stopwords -> inLang
                      [] ~cfg[t].stopwords_language /\ cfg[t].stopwords -> inList
                      [] OTHER -> FALSE

\* C6 witness: both options set, a token of each set withheld and a third
\* token passed
C6_Witness ==
    \E t \in threads :
        /\ cfg[t].stopwords_language /\ cfg[t].stopwords
        /\ \E i, j \in 1..Len(emitted[t]) :
              /\ emitted[t][i].text \in LanguageStopwords
              /\ emitted[t][j].text \in CustomStopwords
        /\ Len(out[t]) = 1

\* C7: however the first token_stream() calls of several threads interleave,
\* the initializer of CHARABIA_TOKENIZER runs once, no stream is built on an
\* engine that is not complete, and all streams use the one instance.
C7_OneConstruction ==
    /\ constructions <= 1
    /\ lazy.state = "complete" <=> constructions = 1
    /\ lazy.instance = constructions
    /\ Cardinality({t \in threads : pc[t] = "init"}) <= 1
    /\ \A t \in DOMAIN stream : stream[t].engine = 1 /\ lazy.state = "complete"

\* C7 witness: two threads hold a stream each, both on the engine that was
\* built once
C7_Witness ==
    \E t, u \in DOMAIN stream :
        /\ t # u
        /\ stream[t].engine = stream[u].engine
        /\ constructions = 1

\* C8: a second token_stream() over the same buffer, after the first stream
\* was driven to the end or abandoned, starts at position 0 with nothing
\* carried over and yields the same tokens: the two runs agree token by token
\* as far as both went, and are equal when both were driven to the end.
C8_SameTokensAgain ==
    \A t \in DOMAIN stream :
        /\ ret[t] = "none" =>
              /\ stream[t].position = 0
              /\ stream[t].cursor = 0
              /\ token(stream[t]) = DefaultToken
        /\ runs[t] >= 2 =>
              /\ \A i \in 1..Min(Len(out[t]), Len(prev[t].out)) :
                    out[t][i] = prev[t].out[i]
              /\ (ret[t] = "false" /\ prev[t].done) => out[t] = prev[t].out
              /\ ret[t] = "false" => IsPrefix(prev[t].out, out[t])

\* C8 witness: the first stream was abandoned after one token, the second
\* was driven to the end and yielded two or more
C8_Witness ==
    \E t \in DOMAIN stream :
        /\ runs[t] = 2
        /\ ~prev[t].done
        /\ Len(prev[t].out) = 1
        /\ ret[t] = "false"
        /\ Len(out[t]) >= 2

\* a step leaves alone the stream, the tokens and the result of every thread
\* but the one that moved
OneThreadMoves ==
    \A t, u \in threads :
        (t # u /\ <<pc[t], ret[t], out[t]>> # <<pc'[t], ret'[t], out'[t]>>)
            => /\ <<pc[u], ret[u], out[u]>> = <<pc'[u], ret'[u], out'[u]>>
               /\ (u \in DOMAIN stream => (u \in DOMAIN stream' /\ stream'[u] = stream[u]))

\* what each caller has collected is what its stream yields when driven alone
AsDrivenAlone ==
    \A t \in DOMAIN stream :
        LET alone == Drive(new(text[t], 1)) IN
        /\ IsPrefix(out[t], alone)
        /\ ret[t] = "false" => out[t] = alone
        /\ stream[t].position = Len(out[t])
        /\ ret[t] = "true" => token(stream[t]) = out[t][Len(out[t])]

\* C9: streams advanced in any interleaving each yield the tokens they yield
\* when driven alone, and an advance() on one stream changes neither the
\* position counter nor the current token of another.
C9_StreamsIsolated == []AsDrivenAlone /\ [][OneThreadMoves]_vars

\* C9 witness: two streams, each part-way through its buffer at once
C9_Witness ==
    \E t, u \in DOMAIN stream :
        /\ t # u
        /\ ret[t] = "true" /\ ret[u] = "true"
        /\ stream[t].cursor < Len(stream[t].segs)
        /\ stream[u].cursor < Len(stream[u].segs)

\* C10: on an empty buffer, or one of non-word segments only, advance()
\* never returns true: no token is yielded and no position is assigned.
C10_NoWordsNoTokens ==
    \A t \in threads :
        ~HasWord(text[t]) =>
            /\ ret[t] # "true"
            /\ out[t] = <<>>
            /\ t \in DOMAIN stream =>
                  /\ stream[t].position = 0
                  /\ token(stream[t]) = DefaultToken

\* C10 witness: the first advance() over a buffer of two non-word segments
\* has returned false
C10_Witness ==
    \E t \in DOMAIN stream :
        /\ Len(text[t]) = 2
        /\ ~HasWord(text[t])
        /\ ret[t] = "false"
        /\ afterFalse[t] = 0

\* whether a text holds no starter followed by a mark it composes with
Composed(txt) == \A i \in 1..(Len(txt) - 1) : ~Composable(txt[i], txt[i + 1])

\* C11: the text of every token is the NFC form of the lemma of the word
\* segment it was built from: composed throughout, never the raw lemma where
\* the two differ, never the text of an earlier segment.
C11_TextIsNfcOfLemma ==
    \A t \in DOMAIN stream :
        \A k \in 1..Len(emitted[t]) :
            LET lem == stream[t].segs[srcIdx[t][k]].lemma IN
            /\ emitted[t][k].text = nfc(lem)
            /\ Composed(emitted[t][k].text)
            /\ lem = E_DECOMPOSED => emitted[t][k].text = <<E_ACUTE>>
            /\ lem = THE => emitted[t][k].text = THE
            /\ lem = FOX => emitted[t][k].text = FOX

\* C11 witness: a token built from the decomposed lemma, after a token of a
\* lemma that NFC leaves as it is
C11_Witness ==
    \E t \in DOMAIN stream :
        /\ Len(emitted[t]) >= 2
        /\ stream[t].segs[srcIdx[t][1]].lemma = FOX
        /\ stream[t].segs[srcIdx[t][2]].lemma = E_DECOMPOSED
        /\ emitted[t][2].text = <<E_ACUTE>>

\* C12: every token read after an advance() that returned true has
\* position_length 1, also when a later stage had changed position_length of
\* the token before through token_mut().
C12_PositionLengthOne ==
    \A t \in threads :
        \A k \in 1..Len(out[t]) : out[t][k].position_length = 1

\* C13: after an advance() that returned true, offset_from and offset_to of
\* the token are byte_start and byte_end of the word segment just pulled,
\* as the engine gave them: the token starts where the units before that
\* segment end and is as wide as the segment, whatever the length of its
\* normalised text and whatever segment was skipped or emitted before.
C13_OffsetsVerbatim ==
    \A t \in DOMAIN stream :
        /\ \A k \in 1..Len(emitted[t]) :
              LET i == srcIdx[t][k] IN
              /\ emitted[t][k].offset_from = ByteLen(SubSeq(text[t], 1, i - 1))
              /\ emitted[t][k].offset_to - emitted[t][k].offset_from = text[t][i].width
        /\ ret[t] = "true" =>
              /\ srcIdx[t][Len(srcIdx[t])] = stream[t].cursor
              /\ token(stream[t]).offset_from = stream[t].segs[stream[t].cursor].byte_start
              /\ token(stream[t]).offset_to = stream[t].segs[stream[t].cursor].byte_end

\* C13 witness: the token of a three-byte word whose normalised text is one
\* code point, pulled after a skipped non-word segment and an earlier token
C13_Witness ==
    \E t \in DOMAIN stream :
        /\ ret[t] = "true"
        /\ Len(emitted[t]) = 2
        /\ stream[t].cursor = 3
        /\ ~stream[t].segs[2].is_word
        /\ Len(token(stream[t]).text) = 1
        /\ token(stream[t]).offset_to - token(stream[t]).offset_from = 3

\* a step of thread t that is an advance() call on its stream
AdvanceStep(t) ==
    /\ pc[t] = "open" /\ pc'[t] = "open"
    /\ \/ ret'[t] # ret[t]
       \/ afterFalse'[t] # afterFalse[t]
       \/ stream'[t].cursor # stream[t].cursor

\* the word segments the stream of t has not pulled yet
RemainingWords(t) ==
    {i \in (stream[t].cursor + 1)..Len(stream[t].segs) : stream[t].segs[i].is_word}

\* C14: behind the filter, a false advance() means the wrapped adapter is
\* exhausted, and it is followed by false on every later call; when all the
\* tokens the adapter has left are stop words, one advance() of the filter
\* draws them all and returns false, exposing none.
C14_ExhaustionPropagates ==
    [][\A t \in threads :
          /\ (ret[t] = "false" /\ pc'[t] = "open")
                => (ret'[t] = "false" /\ out'[t] = out[t])
          /\ (pc'[t] = "open" /\ ret'[t] = "false")
                => stream'[t].cursor = Len(stream'[t].segs)
          /\ (AdvanceStep(t)
              /\ \A i \in RemainingWords(t) :
                    nfc(stream[t].segs[i].lemma) \in ActiveStopwords(cfg[t]))
                => /\ ret'[t] = "false"
                   /\ out'[t] = out[t]
                   /\ stream'[t].cursor = Len(stream[t].segs)
                   /\ Len(emitted'[t]) = Len(emitted[t]) + Cardinality(RemainingWords(t))]_vars

\* C14 witness: a filtered stream that exposed one token, then drew two stop
\* words in one call that returned false, and was called again
C14_Witness ==
    \E t \in DOMAIN stream :
        /\ Filtered(cfg[t])
        /\ ret[t] = "false"
        /\ afterFalse[t] >= 1
        /\ Len(out[t]) = 1
        /\ Len(emitted[t]) = 3
        /\ emitted[t][1] = out[t][1]

\* an advance() that returned false wrote neither the token nor the counter
FalseAdvanceFrame ==
    \A t \in threads :
        (AdvanceStep(t) /\ ret'[t] = "false")
            => /\ stream'[t].token = stream[t].token
               /\ stream'[t].position = stream[t].position

\* after a false advance() token() is the last token emitted, or the default
\* token (empty text, offsets 0, position_length 1) when there was none
LastTokenKept ==
    \A t \in DOMAIN stream :
        ret[t] = "false" =>
            /\ stream[t].position = Len(out[t])
            /\ out[t] # <<>> => token(stream[t]) = out[t][Len(out[t])]
            /\ out[t] = <<>> =>
                  /\ token(stream[t]).text = <<>>
                  /\ token(stream[t]).offset_from = 0
                  /\ token(stream[t]).offset_to = 0
                  /\ token(stream[t]).position_length = 1

\* C15: an advance() that returns false leaves the current token and the
\* position counter as they were, also when it consumed non-word segments:
\* token() still gives the last emitted token, or the default token.
C15_FalseAdvanceKeepsToken == []LastTokenKept /\ [][FalseAdvanceFrame]_vars

\* C15 witness: the first false of a stream that had emitted a token, given
\* by a call that consumed the non-word segment ending the buffer
C15_Witness ==
    \E t \in DOMAIN stream :
        /\ ret[t] = "false"
        /\ afterFalse[t] = 0
        /\ Len(out[t]) >= 1
        /\ ~stream[t].segs[Len(stream[t].segs)].is_word
        /\ token(stream[t]) = out[t][Len(out[t])]

\* a step of thread t that is a write through token_mut()
TokenMutStep(t) ==
    /\ pc[t] = "open" /\ pc'[t] = "open"
    /\ stream'[t].token # stream[t].token
    /\ out'[t] = out[t]

\* a write through token_mut() moves neither the counter nor the cursor
TokenMutFrame ==
    \A t \in threads :
        TokenMutStep(t) =>
            /\ stream'[t].position = stream[t].position
            /\ stream'[t].cursor = stream[t].cursor
            /\ stream'[t].segs = stream[t].segs

\* whatever was written through token_mut(), the k-th true advance() gave
\* position k-1 and the text and offsets of the k-th word segment
OverwrittenByAdvance ==
    \A t \in DOMAIN stream :
        /\ stream[t].position = Len(out[t])
        /\ srcIdx[t] = WordIdx(stream[t].segs, stream[t].cursor)
        /\ Len(out[t]) = Len(srcIdx[t])
        /\ \A k \in 1..Len(out[t]) :
              LET seg == stream[t].segs[srcIdx[t][k]] IN
              /\ out[t][k].position = k - 1
              /\ out[t][k].text = nfc(seg.lemma)
              /\ out[t][k].offset_from = seg.byte_start
              /\ out[t][k].offset_to = seg.byte_end

\* C16: a write through token_mut() changes neither the position counter nor
\* the segment cursor; the next true advance() assigns the number of earlier
\* true results as position and overwrites text, offset_from, offset_to and
\* position with the values of the next word segment.
C16_TokenMutDoesNotSteer == []OverwrittenByAdvance /\ [][TokenMutFrame]_vars

\* C16 witness: a second token read after a write through token_mut() (its
\* position_length is the written one), with its own position, text and
\* offsets
C16_Witness ==
    \E t \in DOMAIN stream :
        /\ Len(out[t]) = 2
        /\ out[t][2].position_length = 2
        /\ out[t][2].position = 1
        /\ out[t][2].text = nfc(stream[t].segs[srcIdx[t][2]].lemma)
        /\ out[t][2].offset_from > 0

\* the number of word segments of a buffer
NumWords(txt) == Cardinality({i \in 1..Len(txt) : txt[i].is_word})

\* at the first false and after it, the caller has had one true result per
\* word segment and every segment has been pulled
AllWordsOnce ==
    \A t \in DOMAIN stream :
        /\ stream[t].cursor <= Len(stream[t].segs)
        /\ Len(out[t]) <= NumWords(text[t])
        /\ ret[t] = "false" =>
              /\ Len(out[t]) = NumWords(text[t])
              /\ stream[t].cursor = Len(stream[t].segs)

\* the cursor only moves forward: no segment is pulled twice
NeverRevisited ==
    \A t \in threads :
        (pc[t] = "open" /\ pc'[t] = "open")
            => /\ stream'[t].cursor >= stream[t].cursor
               /\ Len(out'[t]) - Len(out[t]) <= stream'[t].cursor - stream[t].cursor

\* C17: a caller looping on advance() over a finite buffer gets false in the
\* end, after exactly one true result per word segment; every segment is
\* pulled at most once.
C17_LoopEnds ==
    /\ <>(\A t \in threads : ret[t] = "false")
    /\ []AllWordsOnce
    /\ [][NeverRevisited]_vars

\* C17 witness: the loop has ended on a buffer of three segments, two of
\* them words, after two true results
C17_Witness ==
    \E t \in DOMAIN stream :
        /\ ret[t] = "false"
        /\ Len(text[t]) = 3
        /\ NumWords(text[t]) = 2
        /\ Len(out[t]) = 2
        /\ stream[t].cursor = 3

====
